---- MODULE Spec2Model ----
(***************************************************************************)
(* Automatic gain control (src/agc/src/agc.c) as a state machine.           *)
(*                                                                          *)
(* The C type T = float is modelled by a miniature floating-point format:   *)
(* radix 10, one significant digit, exponents -Emax..Emax, round to nearest *)
(* (ties to even), overflow to +-Inf, underflow to zero, and NaN with the   *)
(* IEEE-754 rules for comparisons and for invalid operations.  The literals *)
(* of the source (1.0f, 0.1f, 1e-6f, 1e+6f) are exact in this format.  The  *)
(* sign of zero is not kept.                                                *)
(***************************************************************************)
EXTENDS Integers, Sequences, FiniteSets, TLC

\* largest decimal exponent of the float format (1e+6f must be finite)
Emax == 6

----------------------------------------------------------------------------
(* float values *)

NaN  == [k |-> "nan", m |-> 0, e |-> 0]
PInf == [k |-> "inf", m |-> 1, e |-> 0]
NInf == [k |-> "inf", m |-> -1, e |-> 0]
Zero == [k |-> "fin", m |-> 0, e |-> 0]

\* the finite value m * 10^e, m in -9..9
F(m, e) == IF m = 0 THEN Zero ELSE [k |-> "fin", m |-> m, e |-> e]

One == F(1, 0)

IsNaN(a) == a.k = "nan"
IsInf(a) == a.k = "inf"
IsFin(a) == a.k = "fin"
IsZero(a) == a.k = "fin" /\ a.m = 0

Sign(a) == IF a.m > 0 THEN 1 ELSE IF a.m < 0 THEN -1 ELSE 0

Abs(n) == IF n < 0 THEN -n ELSE n

Inf(s) == IF s < 0 THEN NInf ELSE PInf

RECURSIVE Pow10(_)
Pow10(n) == IF n <= 0 THEN 1 ELSE 10 * Pow10(n - 1)

\* number of decimal digits of n >= 1, minus one
RECURSIVE Digits(_)
Digits(n) == IF n < 10 THEN 0 ELSE 1 + Digits(n \div 10)

\* s * m * 10^x, m in 1..9, with overflow to Inf and underflow to zero
Pack(s, m, x) ==
    IF x > Emax THEN Inf(s)
    ELSE IF x < -Emax THEN Zero
    ELSE F(s * m, x)

\* s * (qd + r / p) * 10^x, qd in 1..9 and 0 <= r < p, rounded to nearest,
\* ties to even
RoundDigit(s, x, qd, r, p) ==
    IF (2 * r > p) \/ (2 * r = p /\ qd % 2 = 1)
    THEN IF qd = 9 THEN Pack(s, 1, x + 1) ELSE Pack(s, qd + 1, x)
    ELSE Pack(s, qd, x)

\* p = 10^d, the weight of the leading digit of n
RoundAt(s, n, e, d, p) == RoundDigit(s, e + d, n \div p, n % p, p)

\* s * n * 10^e (n >= 0 an integer) rounded to the format
Round(s, n, e) ==
    IF n = 0 \/ s = 0 THEN Zero
    ELSE RoundAt(s, n, e, Digits(n), Pow10(Digits(n)))

Neg(a) == IF IsNaN(a) THEN NaN ELSE [a EXCEPT !.m = -a.m]

\* a < b, a <= b, a > b as C compares floats: false when either is NaN
Lt(a, b) ==
    IF IsNaN(a) \/ IsNaN(b) THEN FALSE
    ELSE IF IsInf(a) THEN a.m < 0 /\ ~(IsInf(b) /\ b.m < 0)
    ELSE IF IsInf(b) THEN b.m > 0
    ELSE IF Sign(a) # Sign(b) THEN Sign(a) < Sign(b)
    ELSE IF Sign(a) = 0 THEN FALSE
    ELSE IF Sign(a) > 0
         THEN a.e < b.e \/ (a.e = b.e /\ a.m < b.m)
         ELSE a.e > b.e \/ (a.e = b.e /\ a.m < b.m)

Gt(a, b) == Lt(b, a)

\* a == b as C compares floats
Eq(a, b) == ~IsNaN(a) /\ ~IsNaN(b) /\ a = b

Le(a, b) == Lt(a, b) \/ Eq(a, b)

Mul(a, b) ==
    IF IsNaN(a) \/ IsNaN(b) THEN NaN
    ELSE IF IsInf(a) \/ IsInf(b)
         THEN IF IsZero(a) \/ IsZero(b) THEN NaN ELSE Inf(Sign(a) * Sign(b))
    ELSE Round(Sign(a) * Sign(b), Abs(a.m) * Abs(b.m), a.e + b.e)

Div(a, b) ==
    IF IsNaN(a) \/ IsNaN(b) THEN NaN
    ELSE IF IsInf(a) THEN IF IsInf(b) THEN NaN
                          ELSE Inf(a.m * (IF Sign(b) < 0 THEN -1 ELSE 1))
    ELSE IF IsInf(b) THEN Zero
    ELSE IF IsZero(b) THEN IF IsZero(a) THEN NaN ELSE Inf(Sign(a))
    ELSE Round(Sign(a) * Sign(b), (Abs(a.m) * 1000) \div Abs(b.m),
               a.e - b.e - 3)

\* the integer n times 10^e
RoundInt(n, e) == Round(IF n < 0 THEN -1 ELSE 1, Abs(n), e)

\* hi + lo for finite non-zero values with hi.e >= lo.e
AddFin(hi, lo) ==
    IF hi.e - lo.e > 2 THEN hi
    ELSE RoundInt(hi.m * Pow10(hi.e - lo.e) + lo.m, lo.e)

Add(a, b) ==
    IF IsNaN(a) \/ IsNaN(b) THEN NaN
    ELSE IF IsInf(a) THEN IF IsInf(b) /\ a.m # b.m THEN NaN ELSE a
    ELSE IF IsInf(b) THEN b
    ELSE IF IsZero(a) THEN b
    ELSE IF IsZero(b) THEN a
    ELSE IF a.e >= b.e THEN AddFin(a, b) ELSE AddFin(b, a)

Sub(a, b) == Add(a, Neg(b))

\* integer square root
Isqrt(n) == CHOOSE r \in 0..100 : r * r <= n /\ n < (r + 1) * (r + 1)

\* sqrt(n) * 10^(h - 1), r the integer square root of n
SqrtRound(n, h, r) == Round(1, 10 * r + (IF r * r = n THEN 0 ELSE 1), h - 2)

sqrtf(a) ==
    IF IsNaN(a) THEN NaN
    ELSE IF IsInf(a) THEN IF a.m > 0 THEN PInf ELSE NaN
    ELSE IF a.m < 0 THEN NaN
    ELSE IF a.m = 0 THEN Zero
    ELSE IF a.e % 2 = 1
         THEN SqrtRound(a.m * 1000, (a.e - 1) \div 2, Isqrt(a.m * 1000))
         ELSE SqrtRound(a.m * 100, a.e \div 2, Isqrt(a.m * 100))

\* 1000 * ln(m), m in 1..9
LnTab == <<0, 693, 1099, 1386, 1609, 1792, 1946, 2079, 2197>>
\* 1000 * ln(m + 1/2), m in 1..9: from there on expf rounds up to m + 1
LnHalf == <<405, 916, 1253, 1504, 1705, 1872, 2015, 2140, 2251>>

\* ln(m * 10^e) = ln(m) + e * ln(10), in thousandths
logf(a) ==
    IF IsNaN(a) THEN NaN
    ELSE IF IsInf(a) THEN IF a.m > 0 THEN PInf ELSE NaN
    ELSE IF a.m < 0 THEN NaN
    ELSE IF a.m = 0 THEN NInf
    ELSE RoundInt(LnTab[a.m] + 2303 * a.e, -3)

\* the digit exp(r / 1000) rounds to, 0 <= r < 2303; 10 stands for 1e1
ExpDigit(r) ==
    IF r >= LnHalf[9] THEN 10
    ELSE CHOOSE i \in 1..9 :
             r < LnHalf[i] /\ \A j \in 1..(i - 1) : r >= LnHalf[j]

\* exp(v / 1000) for v = 2303 * k + r
ExpRound(k, m) == IF m = 10 THEN Pack(1, 1, k + 1) ELSE Pack(1, m, k)

\* exp((sh - 40 * 2303) / 1000), sh >= 0
ExpInt(sh) == ExpRound((sh \div 2303) - 40, ExpDigit(sh % 2303))

expf(a) ==
    IF IsNaN(a) THEN NaN
    ELSE IF IsInf(a) THEN IF a.m > 0 THEN PInf ELSE Zero
    ELSE IF a.e >= 2 THEN IF a.m > 0 THEN PInf ELSE Zero
    ELSE IF a.e < -3 THEN One
    ELSE ExpInt(a.m * Pow10(a.e + 3) + 2303 * 40)

----------------------------------------------------------------------------
(* complex samples: <<real part, imaginary part>> *)

conj(x) == <<x[1], Neg(x[2])>>

\* crealf(a * b)
crealf_mul(a, b) == Sub(Mul(a[1], b[1]), Mul(a[2], b[2]))

\* complex sample times real gain
cmul_real(x, g) == <<Mul(x[1], g), Mul(x[2], g)>>

----------------------------------------------------------------------------
(* struct agc_s and the functions of agc.c, as functions of the struct *)

AgcTypes == {"DEFAULT", "LOG", "EXP"}

\* the value of a float that malloc() returned and nobody wrote yet
Indeterminate == {Zero, NaN}

\* a function that returned / a function that called exit(-1)
Return(q) == [ok |-> TRUE, q |-> q]
Exit(q)   == [ok |-> FALSE, q |-> q]

agc_unlock(q) == [q EXCEPT !.is_locked = FALSE]

agc_lock(q) == [q EXCEPT !.is_locked = TRUE]

\* mutant: reset also restores the default gain
agc_reset_gain(q) ==
    agc_unlock([q EXCEPT !.e_prime = One, !.e_hat = One, !.g = One])

agc_reset(q) == agc_unlock([q EXCEPT !.e_prime = One, !.e_hat = One])

agc_set_target(q, e_target) ==
    IF Le(e_target, Zero) THEN Exit(q)
    ELSE Return([q EXCEPT !.e_target = e_target])

\* mutant: g_min is stored before the limits are validated
agc_set_gain_limits_early(q, g_min, g_max) ==
    IF Gt(g_min, g_max) THEN Exit([q EXCEPT !.g_min = g_min])
    ELSE Return([q EXCEPT !.g_min = g_min, !.g_max = g_max])

\* mutant: the setter clamps the current gain into the new limits
agc_set_gain_limits_reclamp(q, g_min, g_max) ==
    IF Gt(g_min, g_max) THEN Exit(q)
    ELSE IF Gt(q.g, g_max)
         THEN Return([q EXCEPT !.g_min = g_min, !.g_max = g_max, !.g = g_max])
    ELSE IF Lt(q.g, g_min)
         THEN Return([q EXCEPT !.g_min = g_min, !.g_max = g_max, !.g = g_min])
    ELSE Return([q EXCEPT !.g_min = g_min, !.g_max = g_max])

agc_set_gain_limits(q, g_min, g_max) ==
    IF Gt(g_min, g_max) THEN Exit(q)
    ELSE Return([q EXCEPT !.g_min = g_min, !.g_max = g_max])

\* the stores of agc_set_bandwidth(), alpha = sqrtf(BT)
agc_set_alpha(q, BT, alpha) ==
    [q EXCEPT !.BT = BT, !.alpha = alpha, !.beta = Sub(One, alpha)]

agc_set_bandwidth(q, BT) ==
    IF Lt(BT, Zero) THEN Exit(q)
    ELSE IF Gt(BT, One) THEN Exit(q)
    ELSE Return(agc_set_alpha(q, BT, sqrtf(BT)))

\* mutant: agc_create() leaves the type as malloc() returned it
agc_create_type_unset == "UNSET"

\* the update law agc_create() selects
agc_create_type == "LOG"

\* agc_create() up to its calls of the setters; u: what the malloc'ed
\* memory holds (is_locked is written before anything reads it)
agc_create_fields(u) ==
    [type |-> agc_create_type,
     e_target |-> u, g |-> One, g_min |-> F(1, -6), g_max |-> F(1, 6),
     BT |-> u, alpha |-> u, beta |-> u,
     e |-> u, e_hat |-> One, e_prime |-> One, is_locked |-> TRUE]

agc_create(u) ==
    [agc_set_bandwidth(agc_set_target(agc_create_fields(u), One).q, Zero).q
        EXCEPT !.is_locked = FALSE]

zeta == F(1, -1)

\* e_hat = sqrtf(e_prime) of the default and the logarithmic law
agc_store_energy(q, e, e_prime) ==
    [q EXCEPT !.e = e, !.e_prime = e_prime, !.e_hat = sqrtf(e_prime)]

\* the energy estimate of the default and the logarithmic law:
\* e_prime = e * zeta + e_prime * (1 - zeta)
agc_estimate_energy(q, e) ==
    agc_store_energy(q, e,
        Add(Mul(e, zeta), Mul(q.e_prime, Sub(One, zeta))))

\* q1: q with the energy estimate updated; g = e_target / e_hat
agc_gain_default(q1) ==
    [q1 EXCEPT !.g = Add(Mul(q1.beta, q1.g),
                         Mul(q1.alpha, Div(q1.e_target, q1.e_hat)))]

agc_estimate_gain_default(q, x) ==
    agc_gain_default(agc_estimate_energy(q, crealf_mul(x, conj(x))))

\* q1: q with the energy estimate updated
\* gain_ideal = e_target / e_hat, log_gain_error = logf(gain_ideal) - logf(g)
agc_gain_log(q1) ==
    [q1 EXCEPT !.g = Mul(q1.g, expf(Mul(q1.alpha,
                       Sub(logf(Div(q1.e_target, q1.e_hat)), logf(q1.g)))))]

agc_estimate_gain_log(q, x) ==
    agc_gain_log(agc_estimate_energy(q, crealf_mul(x, conj(x))))

\* the gain of the exponential law, e_out = e_hat * g
agc_gain_exp(q, e_out) ==
    IF Gt(e_out, q.e_target)
    THEN Mul(q.g, Sub(One, Div(Mul(q.beta, Sub(e_out, q.e_target)), e_out)))
    ELSE Mul(q.g, Add(One, Div(Mul(q.beta, Sub(q.e_target, e_out)),
                               q.e_target)))

\* q1: q with e and e_hat = sqrtf(e) stored
agc_step_exp(q1) == [q1 EXCEPT !.g = agc_gain_exp(q1, Mul(q1.e_hat, q1.g))]

\* mutant: the output level estimate is stored over the target energy
agc_step_exp_target(q1) == [q1 EXCEPT !.e_target = Mul(q1.e_hat, q1.g)]

agc_store_exp(q, e) == [q EXCEPT !.e = e, !.e_hat = sqrtf(e)]

\* mutant: the output level estimate is stored over the target energy
agc_estimate_gain_exp_target(q, x) ==
    agc_step_exp_target(agc_store_exp(q, crealf_mul(x, conj(x))))

agc_estimate_gain_exp(q, x) ==
    agc_step_exp(agc_store_exp(q, crealf_mul(x, conj(x))))

\* mutant: only the upper limit is enforced
agc_limit_gain_upper_only(q) ==
    IF Gt(q.g, q.g_max) THEN [q EXCEPT !.g = q.g_max] ELSE q

agc_limit_gain(q) ==
    IF Gt(q.g, q.g_max) THEN [q EXCEPT !.g = q.g_max]
    ELSE IF Lt(q.g, q.g_min) THEN [q EXCEPT !.g = q.g_min]
    ELSE q

\* no complex value: the call wrote no output
NoOutput == <<Zero, Zero>>

\* *_y = _x * _q->g, and return
agc_apply_gain(q, x) == [ok |-> TRUE, q |-> q, y |-> cmul_real(x, q.g)]

\* mutant: the locked branch clamps the gain before applying it
agc_execute_locked_clamped(q, x) == agc_apply_gain(agc_limit_gain(q), x)

\* the locked branch of agc_execute()
agc_execute_locked(q, x) == agc_apply_gain(q, x)

\* the switch of agc_execute(), for a type of liquid_agc_type
agc_estimate_gain(q, x) ==
    CASE q.type = "DEFAULT" -> agc_estimate_gain_default(q, x)
      [] q.type = "LOG"     -> agc_estimate_gain_log(q, x)
      [] q.type = "EXP"     -> agc_estimate_gain_exp(q, x)

agc_execute(q, x) ==
    IF q.is_locked THEN agc_execute_locked(q, x)
    ELSE IF q.type \notin AgcTypes THEN [ok |-> FALSE, q |-> q, y |-> NoOutput]
    ELSE agc_apply_gain(agc_limit_gain(agc_estimate_gain(q, x)), x)

agc_get_signal_level(q) == Div(q.e_target, q.g)

agc_get_gain(q) == q.g

----------------------------------------------------------------------------
(* the program: one agc object and the calls a client makes on it *)

VARIABLES
    q,      \* the struct agc_s
    last,   \* the last call: its name, its arguments and what it produced
    pc      \* "run", or "exit" once a call ended in exit(-1)

vars == <<q, last, pc>>

\* arguments the client passes
Samples == {<<Zero, Zero>>, <<One, One>>, <<F(1, 4), Zero>>}
Targets == {Zero, F(4, 0), NaN}
LimitPairs == {<<F(1, 1), One>>, <<F(2, 0), F(3, 0)>>}
Bandwidths == {F(-1, -1), Zero, F(5, -1), F(2, 0), NaN}

\* a call op(a, b) that produced r: *_y of agc_execute() as <<re, im>>,
\* the value a getter returned as <<value, 0>>, NoOutput otherwise
Call(op, a, b, r) == [op |-> op, a |-> a, b |-> b, r |-> r]

Init ==
    /\ \E u \in Indeterminate : q = agc_create(u)
    /\ last = Call("create", Zero, Zero, NoOutput)
    /\ pc = "run"

\* agc_create() with each of the three update laws of liquid_agc_type
InitLaws ==
    /\ \E u \in Indeterminate, t \in AgcTypes :
           q = [agc_create(u) EXCEPT !.type = t]
    /\ last = Call("create", Zero, Zero, NoOutput)
    /\ pc = "run"

\* a call that may end in exit(-1): r is what the function returned
Finish(r) ==
    /\ q' = r.q
    /\ pc' = IF r.ok THEN "run" ELSE "exit"

\* r: what agc_execute() returned for the sample x
ExecuteSample(x, r) ==
    /\ Finish(r)
    /\ last' = Call("execute", x[1], x[2], r.y)

Execute ==
    /\ pc = "run"
    /\ \E x \in Samples : ExecuteSample(x, agc_execute(q, x))

SetTarget ==
    /\ pc = "run"
    /\ \E t \in Targets :
          /\ Finish(agc_set_target(q, t))
          /\ last' = Call("set_target", t, Zero, NoOutput)

SetGainLimits ==
    /\ pc = "run"
    /\ \E p \in LimitPairs :
          /\ Finish(agc_set_gain_limits(q, p[1], p[2]))
          /\ last' = Call("set_gain_limits", p[1], p[2], NoOutput)

SetBandwidth ==
    /\ pc = "run"
    /\ \E bt \in Bandwidths :
          /\ Finish(agc_set_bandwidth(q, bt))
          /\ last' = Call("set_bandwidth", bt, Zero, NoOutput)

Lock ==
    /\ pc = "run"
    /\ q' = agc_lock(q)
    /\ last' = Call("lock", Zero, Zero, NoOutput)
    /\ UNCHANGED pc

Unlock ==
    /\ pc = "run"
    /\ q' = agc_unlock(q)
    /\ last' = Call("unlock", Zero, Zero, NoOutput)
    /\ UNCHANGED pc

Reset ==
    /\ pc = "run"
    /\ q' = agc_reset(q)
    /\ last' = Call("reset", Zero, Zero, NoOutput)
    /\ UNCHANGED pc

GetGain ==
    /\ pc = "run"
    /\ last' = Call("get_gain", Zero, Zero, <<agc_get_gain(q), Zero>>)
    /\ UNCHANGED <<q, pc>>

GetSignalLevel ==
    /\ pc = "run"
    /\ last' = Call("get_signal_level", Zero, Zero,
                    <<agc_get_signal_level(q), Zero>>)
    /\ UNCHANGED <<q, pc>>

Next ==
    \/ Execute
    \/ SetTarget
    \/ SetGainLimits
    \/ SetBandwidth
    \/ Lock
    \/ Unlock
    \/ Reset
    \/ GetGain
    \/ GetSignalLevel

Spec == Init /\ [][Next]_vars

SpecLaws == InitLaws /\ [][Next]_vars

----------------------------------------------------------------------------
(* properties *)

\* the fields execute must not write
Config(s) == <<s.type, s.e_target, s.g_min, s.g_max, s.BT, s.alpha, s.beta>>

\* gain_min <= gain <= gain_max, as C compares
InLimits(s) == Le(s.g_min, s.g) /\ Le(s.g, s.g_max)

Setters == {"set_target", "set_gain_limits", "set_bandwidth"}

\* a setter call whose argument fails the setter's validation
InvalidCall(c) ==
    \/ c.op = "set_target" /\ Le(c.a, Zero)
    \/ c.op = "set_gain_limits" /\ Gt(c.a, c.b)
    \/ c.op = "set_bandwidth" /\ (Lt(c.a, Zero) \/ Gt(c.a, One))

C2_LockedExecuteIsPureScaling ==
    [][(last'.op = "execute" /\ q.is_locked) =>
         /\ q' = q
         /\ pc' = "run"
         /\ last'.r = cmul_real(<<last'.a, last'.b>>, q.g)]_vars

\* a locked execute of x = 1+1i passed the gain 1 through although the
\* limits are [2, 3]
C2_Witness ==
    /\ last.op = "execute" /\ q.is_locked
    /\ last.a = One /\ last.b = One /\ last.r = <<One, One>>
    /\ q.g_min = F(2, 0)

\* C3: reset sets energy_prev and energy_smoothed to 1.0, clears locked and
\* leaves the gain and the configuration as they were.
C3_ResetFrame ==
    [][last'.op = "reset" =>
         /\ q'.e_prime = One /\ q'.e_hat = One /\ ~q'.is_locked
         /\ q'.g = q.g
         /\ Config(q') = Config(q)
         /\ pc' = "run"]_vars

\* after a reset: gain and bandwidth keep their non-default values
C3_Witness ==
    /\ last.op = "reset" /\ ~q.is_locked
    /\ q.e_prime = One /\ q.e_hat = One
    /\ q.g = F(2, 0) /\ q.BT = F(5, -1)

\* C4: a setter called with an invalid argument ends in the error outcome
\* and has written no field.
C4_InvalidSetterWritesNothing ==
    [][InvalidCall(last') => (pc' = "exit" /\ q' = q)]_vars

\* set_gain_limits(10, 1) failed after the limits had been set to [2, 3]
C4_Witness ==
    /\ pc = "exit" /\ last.op = "set_gain_limits"
    /\ last.a = F(1, 1) /\ last.b = One
    /\ q.g_min = F(2, 0) /\ q.g_max = F(3, 0)

\* C5: in every non-error state target_energy > 0 and gain_min <= gain_max.
C5_TargetPositiveLimitsOrdered ==
    pc = "run" => (Gt(q.e_target, Zero) /\ Le(q.g_min, q.g_max))

\* C6: in every non-error state 0 <= bandwidth <= 1, alpha = sqrt(bandwidth)
\* and beta = 1 - alpha.
C6_BandwidthAlphaBeta ==
    pc = "run" =>
        /\ Le(Zero, q.BT) /\ Le(q.BT, One)
        /\ Eq(q.alpha, sqrtf(q.BT))
        /\ Eq(q.beta, Sub(One, q.alpha))

\* C7: an unlocked execute, under each of the three update laws, writes
\* only e, e_hat, e_prime and g.
C7_UnlockedExecuteFrame ==
    [][(last'.op = "execute" /\ ~q.is_locked) =>
         /\ Config(q') = Config(q)
         /\ q'.is_locked = q.is_locked]_vars

\* an unlocked execute under the exponential law moved the gain
C7_Witness ==
    /\ last.op = "execute" /\ ~q.is_locked /\ q.type = "EXP"
    /\ q.g # One /\ ~IsNaN(q.g)

\* C8: the update law is always the logarithmic one, and the process exits
\* only from a setter.
C8_OnlySettersFail ==
    /\ q.type = "LOG"
    /\ pc = "exit" => last.op \in Setters

\* a getter returned NaN (the gain was lost to an overflowing sample) and
\* the process runs on
C8_Witness ==
    /\ pc = "run" /\ last.op = "get_signal_level" /\ IsNaN(last.r[1])

\* C9: a successful set_gain_limits writes gain_min and gain_max only, and
\* nothing but an unlocked execute changes the gain.
C9_LimitsDoNotReclamp ==
    [][/\ (last'.op = "set_gain_limits" /\ pc' = "run") =>
             q' = [q EXCEPT !.g_min = last'.a, !.g_max = last'.b]
       /\ q'.g # q.g => (last'.op = "execute" /\ ~q.is_locked)]_vars

\* right after set_gain_limits(2, 3) the gain 1 is below the lower limit
C9_Witness ==
    /\ pc = "run" /\ last.op = "set_gain_limits"
    /\ q.g = One /\ q.g_min = F(2, 0) /\ Lt(q.g, q.g_min)

\* C10: with bandwidth 0 an unlocked execute leaves the gain as it was,
\* apart from clamping it into the limits.
C10_NoAdaptationAtZeroBandwidth ==
    [][(last'.op = "execute" /\ ~q.is_locked /\ Eq(q.BT, Zero)) =>
         q'.g = agc_limit_gain(q).g]_vars

====
